---- MODULE Spec2Model ----
(***************************************************************************)
(* TravelSafe route-planning engine: calculateRoute and its helpers         *)
(* (ensureTravelModes, resolveTravelMode, createCirclePolygon,              *)
(* getBarrierRadiusForSeverity) as a state machine.                         *)
(*                                                                          *)
(* JavaScript runs one call at a time and suspends a call only at an        *)
(* await, so every action below is one synchronous segment of               *)
(* calculateRoute between two awaits.                                       *)
(*                                                                          *)
(* Numbers are fixed point: coordinates are integers of 1e-5 degree,        *)
(* route attributes are integers of 1e-2 (hundredths).  An optional value   *)
(* (a field that may be absent, a value that may be null or undefined) is   *)
(* a sequence of length 0 or 1.                                             *)
(***************************************************************************)
EXTENDS Integers, Sequences, FiniteSets, TLC

\* ------------------------------------------------------------------ bounds
\* calculateRoute calls in flight at once (SpecCache)
MaxCalls == 2
\* entries of a travel-mode catalog the provider returns (SpecResolve)
MaxCatalog == 3
\* incidents of the snapshot handed to calculateRoute (SpecBarriers)
MaxIncidents == 2
\* entries of plan.avoidTypes (SpecBarriers)
MaxAvoid == 2
\* route entries of a provider response (SpecNormalize)
MaxRoutes == 2

\* --------------------------------------------------------- program constants
STOP_WKID == 4326
ROUTE_OUT_WKID == 4326
numPoints == 32
metersPerDegreeLat == 111320
BarrierTypeRestriction == 0
BarrierCost == 999999

\* ------------------------------------------------------------------ values
None == << >>
Some(v) == << v >>
IsSome(o) == Len(o) > 0
Get(o) == o[1]

\* the value of a property that is not there
Undefined == "undefined"

SeqsUpTo(S, n) == UNION { [1..k -> S] : k \in 0..n }

Range(s) == { s[i] : i \in 1..Len(s) }

\* Array.prototype.includes
Includes(arr, x) == \E i \in 1..Len(arr) : arr[i] = x

\* ---------------------------------------------------- travel-mode resolver
TravelProfile == {"car", "bicycle", "pedestrian"}

travelModeNames(profile) ==
    CASE profile = "car"        -> << "Driving Time", "Driving Distance" >>
      [] profile = "bicycle"    -> << "Cycling Time", "Bicycle Time", "Driving Distance" >>
      [] profile = "pedestrian" -> << "Walking Time", "Walking Distance" >>

\* the predicate of modes.find(...) in resolveTravelMode
ModeMatches(mode, candidate) ==
    mode.name = candidate \/ mode.travelModeName = candidate

\* Array.prototype.find: the first element that satisfies the predicate
FindMode(modes, candidate) ==
    LET hits == { i \in 1..Len(modes) : ModeMatches(modes[i], candidate) }
    IN  IF hits = {} THEN None
        ELSE Some(modes[CHOOSE i \in hits : \A j \in hits : i <= j])

\* the for-loop over the candidates, from candidate k on
RECURSIVE ResolveFrom(_, _, _)
ResolveFrom(candidates, k, modes) ==
    IF k > Len(candidates)
    THEN IF Len(modes) > 0 THEN Some(modes[1]) ELSE None
    ELSE LET found == FindMode(modes, candidates[k])
         IN  IF IsSome(found) THEN found
             ELSE ResolveFrom(candidates, k + 1, modes)

\* the catalog scanned first: its first entry that matches any candidate
resolveTravelMode_CatalogOrder(profile, modes) ==
    LET candidates == travelModeNames(profile)
        hits == { i \in 1..Len(modes) :
                    \E k \in 1..Len(candidates) : ModeMatches(modes[i], candidates[k]) }
    IN  IF hits # {} THEN Some(modes[CHOOSE i \in hits : \A j \in hits : i <= j])
        ELSE IF Len(modes) > 0 THEN Some(modes[1]) ELSE None

\* no fallback to the first entry
resolveTravelMode_NoFallback(profile, modes) ==
    LET candidates == travelModeNames(profile)
        found == { k \in 1..Len(candidates) : IsSome(FindMode(modes, candidates[k])) }
    IN  IF found = {} THEN None
        ELSE FindMode(modes, candidates[CHOOSE k \in found : \A j \in found : k <= j])

resolveTravelMode(profile, modes) ==
    ResolveFrom(travelModeNames(profile), 1, modes)

\* ------------------------------------------------------ geometry utilities
\* Math.sin(i * 2 * Math.PI / numPoints) in thousandths, i a vertex index;
\* the values of one quarter turn, the rest by symmetry
QuarterSine == << 0, 98, 195, 290, 383, 471, 556, 634, 707, 773, 831, 882,
                  924, 957, 981, 995, 1000 >>

\* sine of k sixty-fourths of a turn, in thousandths
SinMilli64(k) ==
    LET r == k % 64
    IN  IF r <= 16 THEN QuarterSine[r + 1]
        ELSE IF r <= 32 THEN QuarterSine[32 - r + 1]
        ELSE IF r <= 48 THEN 0 - QuarterSine[r - 32 + 1]
        ELSE 0 - QuarterSine[64 - r + 1]

\* Math.sin(angle) and Math.cos(angle) for angle = i * 2 * PI / numPoints
SinMilli(i) == SinMilli64((64 \div numPoints) * i)
CosMilli(i) == SinMilli64((64 \div numPoints) * i + 16)

\* Math.cos((centerLat * Math.PI) / 180) in thousandths: the angle in
\* milliradians, then the series 1 - x^2/2 + x^4/24 - x^6/720
CosLatMilli(centerLat) ==
    LET x  == ((centerLat \div 100) * 3142) \div 180000
        x2 == (x * x) \div 1000
        x4 == (x2 * x2) \div 1000
        x6 == (x4 * x2) \div 1000
    IN  1000 - (x2 \div 2) + (x4 \div 24) - (x6 \div 720)

\* the binade of a latitude of a units (1e-5 degree): the least n with
\* a * 2^n at least one degree
RECURSIVE Doublings(_)
Doublings(a) == IF a >= 100000 THEN 0 ELSE 1 + Doublings(2 * a)

\* Math.sin(2 * Math.PI) is -2.4492935982947064e-16 and not 0, so the last
\* vertex's latitude is centerLat + radiusDegreesLat * (-2.449e-16): the sum
\* is centerLat again only if that term is below half an ulp of centerLat,
\* 2^(-n-53) degree for a latitude in binade n. With radiusDegreesLat =
\* radiusMeters / 111320 and 2.449e-16 * 2^53 = 2.2061 the term survives iff
\* radiusMeters * 2.2061 * 2^n > 111320; it always survives at latitude 0.
SineResidueSurvives(centerLat, radiusMeters) ==
    LET a == IF centerLat < 0 THEN 0 - centerLat ELSE centerLat
    IN  IF a = 0 THEN TRUE
        ELSE radiusMeters * (2 ^ Doublings(a)) > (metersPerDegreeLat * 10000) \div 22061

\* what the latitude of vertex i keeps of the sine's residue, below the
\* resolution of the model: -1 for a latitude just south of the value
\* given, 0 for exactly that value
LatResidue(centerLat, radiusMeters, i) ==
    IF i = numPoints /\ SineResidueSurvives(centerLat, radiusMeters) THEN 0 - 1 ELSE 0

\* one vertex [lon, lat] of the ring
CircleVertex(centerLat, centerLon, radiusDegreesLat, radiusDegreesLon, i) ==
    << centerLon + (radiusDegreesLon * CosMilli(i)) \div 1000,
       centerLat + (radiusDegreesLat * SinMilli(i)) \div 1000 >>

createCirclePolygon(centerLat, centerLon, radiusMeters, spatialReference) ==
    LET metersPerDegreeLon == (metersPerDegreeLat * CosLatMilli(centerLat)) \div 1000
        radiusDegreesLat == (radiusMeters * 100000) \div metersPerDegreeLat
        radiusDegreesLon == (radiusMeters * 100000) \div metersPerDegreeLon
        ring == [k \in 1..(numPoints + 1) |->
                    CircleVertex(centerLat, centerLon, radiusDegreesLat,
                                 radiusDegreesLon, k - 1)
                    \o << LatResidue(centerLat, radiusMeters, k - 1) >>]
    IN  [rings |-> << ring >>, spatialReference |-> spatialReference]

\* the fixed radius BARRIER_RADIUS_METERS instead of the severity's
getBarrierRadiusForSeverity_Fixed(severity) == 200

\* the radius growing up to severity 4 only
getBarrierRadiusForSeverity_Capped(severity) ==
    IF severity >= 5 THEN 250 ELSE 100 + (severity - 1) * 50

getBarrierRadiusForSeverity(severity) == 100 + (severity - 1) * 50

\* --------------------------------------------------------- barrier builder
\* the filter inverted
incidentsToAvoid_Inverted(plan, incidents) ==
    IF Len(plan.avoidTypes) = 0 THEN << >>
    ELSE SelectSeq(incidents, LAMBDA incident : ~Includes(plan.avoidTypes, incident.type))

\* an empty avoid list taken as "avoid everything"
incidentsToAvoid_EmptyIsAll(plan, incidents) ==
    IF Len(plan.avoidTypes) = 0 THEN incidents
    ELSE SelectSeq(incidents, LAMBDA incident : Includes(plan.avoidTypes, incident.type))

\* const incidentsToAvoid = plan.avoidTypes.length === 0 ? [] : incidents.filter(...)
incidentsToAvoid(plan, incidents) ==
    IF Len(plan.avoidTypes) = 0 THEN << >>
    ELSE SelectSeq(incidents, LAMBDA incident : Includes(plan.avoidTypes, incident.type))

\* the Graphic built for one incident by the polygonBarriers map
PolygonBarrier(incident) ==
    [geometry   |-> createCirclePolygon(incident.lat, incident.lng,
                        getBarrierRadiusForSeverity(incident.severity), STOP_WKID),
     attributes |-> [Name        |-> << incident.type, incident.id >>,
                     BarrierType |-> BarrierTypeRestriction]]

\* the Graphic built for one incident by the pointBarriers map
PointBarrier(incident) ==
    [geometry   |-> [latitude  |-> incident.lat,
                     longitude |-> incident.lng,
                     spatialReference |-> STOP_WKID],
     attributes |-> [Name            |-> incident.type,
                     BarrierType     |-> BarrierTypeRestriction,
                     Attr_Minutes    |-> BarrierCost,
                     Attr_TravelTime |-> BarrierCost]]

polygonBarriers(selected) ==
    [i \in 1..Len(selected) |-> PolygonBarrier(selected[i])]

pointBarriers(selected) ==
    [i \in 1..Len(selected) |-> PointBarrier(selected[i])]

\* new FeatureSet({features, spatialReference})
FeatureSet(features, spatialReference) ==
    [features |-> features, spatialReference |-> spatialReference]

\* ------------------------------------------------- route request assembler
stops(plan) ==
    FeatureSet(
        << [geometry   |-> [latitude  |-> plan.start.latitude,
                            longitude |-> plan.start.longitude,
                            spatialReference |-> STOP_WKID],
            attributes |-> [Name |-> "Start"]],
           [geometry   |-> [latitude  |-> plan.end.latitude,
                            longitude |-> plan.end.longitude,
                            spatialReference |-> STOP_WKID],
            attributes |-> [Name |-> "Destination"]] >>,
        STOP_WKID)

\* the output reference fixed, whatever the caller passes
outSpatialReference_Wgs84Only(spatialReference) == ROUTE_OUT_WKID

\* spatialReference ?? new SpatialReference({ wkid: ROUTE_OUT_WKID })
outSpatialReference(spatialReference) ==
    IF IsSome(spatialReference) THEN Get(spatialReference) ELSE ROUTE_OUT_WKID

\* an empty travel mode submitted when the resolver found none
paramsTravelMode_Placeholder(travelMode) ==
    IF IsSome(travelMode) THEN travelMode
    ELSE Some([id |-> 0, name |-> "", travelModeName |-> Undefined])

\* params.travelMode: set only if (travelMode)
paramsTravelMode(travelMode) ==
    IF IsSome(travelMode) THEN travelMode ELSE None

\* the polygon barriers never attached
paramsPolygonBarriers_Never(polygons) == None

\* params.polygonBarriers: set only if polygonBarriers.length > 0
paramsPolygonBarriers(polygons) ==
    IF Len(polygons) > 0 THEN Some(FeatureSet(polygons, STOP_WKID)) ELSE None

\* params.pointBarriers: set only if pointBarriers.length > 0
paramsPointBarriers(points) ==
    IF Len(points) > 0 THEN Some(FeatureSet(points, STOP_WKID)) ELSE None

\* the RouteParameters calculateRoute hands to route.solve
RouteParameters(plan, incidents, spatialReference, modes) ==
    LET travelMode == resolveTravelMode(plan.mode, modes)
        selected   == incidentsToAvoid(plan, incidents)
    IN  [stops               |-> stops(plan),
         returnRoutes        |-> TRUE,
         returnDirections    |-> FALSE,
         outputLines         |-> "true-shape",
         outSpatialReference |-> outSpatialReference(spatialReference),
         findBestSequence    |-> FALSE,
         preserveFirstStop   |-> TRUE,
         preserveLastStop    |-> TRUE,
         travelMode          |-> paramsTravelMode(travelMode),
         polygonBarriers     |-> paramsPolygonBarriers(polygonBarriers(selected)),
         pointBarriers       |-> paramsPointBarriers(pointBarriers(selected))]

\* --------------------------------------------------------- result normalizer
\* a route attribute: what typeof gives for it, and the number in hundredths
NumberAttr(n) == [typeof |-> "number", number |-> n]
StringAttr == [typeof |-> "string", number |-> 0]
UndefinedAttr == [typeof |-> Undefined, number |-> 0]

\* webMercatorUtils.webMercatorToGeographic(geometry): the polyline the
\* library gives back, or nothing
webMercatorToGeographic(geometry) ==
    IF geometry.reprojects
    THEN Some([paths |-> geometry.paths, wkid |-> Some(STOP_WKID),
               reprojects |-> FALSE, projected |-> TRUE])
    ELSE None

\* Polyline.toJSON()
toJSON(geometry) ==
    [paths |-> geometry.paths, spatialReference |-> geometry.wkid,
     projected |-> geometry.projected]

\* reprojection attempted whatever the geometry's spatial reference
geometryWgs84_AlwaysReprojects(geometry) ==
    LET converted == webMercatorToGeographic(geometry)
    IN  IF IsSome(converted) THEN Get(converted) ELSE geometry

\* geometry.spatialReference?.wkid === STOP_WKID ? geometry
\*   : webMercatorToGeographic(geometry) ?? geometry
geometryWgs84(geometry) ==
    IF geometry.wkid = Some(STOP_WKID) THEN geometry
    ELSE LET converted == webMercatorToGeographic(geometry)
         IN  IF IsSome(converted) THEN Get(converted) ELSE geometry

\* miles looked at before kilometres
distanceKm_MilesFirst(attrs) ==
    IF attrs.Total_Miles.typeof = "number"
    THEN Some(attrs.Total_Miles.number * 160934)
    ELSE IF attrs.Total_Kilometers.typeof = "number"
    THEN Some(attrs.Total_Kilometers.number * 100000)
    ELSE None

\* distanceKm in units of 1e-7 km (hundredths times the factor 1.60934 in
\* units of 1e-5), or nothing
distanceKm(attrs) ==
    IF attrs.Total_Kilometers.typeof = "number"
    THEN Some(attrs.Total_Kilometers.number * 100000)
    ELSE IF attrs.Total_Miles.typeof = "number"
    THEN Some(attrs.Total_Miles.number * 160934)
    ELSE None

\* the generic time looked at before the travel time
timeMinutes_TimeFirst(attrs) ==
    IF attrs.Total_Time.typeof = "number" THEN Some(attrs.Total_Time.number)
    ELSE IF attrs.Total_TravelTime.typeof = "number" THEN Some(attrs.Total_TravelTime.number)
    ELSE None

\* timeMinutes in hundredths, or nothing
timeMinutes(attrs) ==
    IF attrs.Total_TravelTime.typeof = "number" THEN Some(attrs.Total_TravelTime.number)
    ELSE IF attrs.Total_Time.typeof = "number" THEN Some(attrs.Total_Time.number)
    ELSE None

\* a missing distance rendered as an empty string
distanceText_Blank(km) ==
    IF IsSome(km) THEN [fixed |-> (Get(km) + 50000) \div 100000, text |-> " km"]
    ELSE [fixed |-> 0, text |-> ""]

\* `${distanceKm.toFixed(2)} km`: the number in hundredths and the suffix
distanceText(km) ==
    IF IsSome(km) THEN [fixed |-> (Get(km) + 50000) \div 100000, text |-> " km"]
    ELSE [fixed |-> 0, text |-> "distance unavailable"]

\* `${Math.round(timeMinutes)} min`: the whole number and the suffix
timeText(minutes) ==
    IF IsSome(minutes) THEN [fixed |-> (Get(minutes) + 50) \div 100, text |-> " min"]
    ELSE [fixed |-> 0, text |-> "time unavailable"]

NoOutcome == [error |-> None, result |-> None]
Threw(message) == [error |-> Some(message), result |-> None]
Returned(result) == [error |-> None, result |-> Some(result)]

MissingKeyMessage == "Missing ArcGIS API key (VITE_ARCGIS_API_KEY)"
NoRouteMessage == "No route returned from routing service"

\* !routeResults || !routeResults.length
NoRouteResults(response) ==
    ~IsSome(response.routeResults) \/ Len(Get(response.routeResults)) = 0

\* the RouteResult built from routeResults[0].route
RouteResultOf(routeFeature) ==
    LET attrs    == routeFeature.attributes
        geometry == routeFeature.geometry
    IN  [geometry          |-> geometry,
         geometryWgs84Json |-> toJSON(geometryWgs84(geometry)),
         distanceText      |-> distanceText(distanceKm(attrs)),
         timeText          |-> timeText(timeMinutes(attrs))]

EmptyGeometry == [paths |-> "none", wkid |-> None, reprojects |-> FALSE, projected |-> FALSE]

\* an empty route list answered with an empty result instead of an error
Normalize_EmptyResult(response) ==
    IF ~IsSome(response.routeResults) THEN Threw(NoRouteMessage)
    ELSE IF Len(Get(response.routeResults)) = 0
    THEN Returned([geometry          |-> EmptyGeometry,
                   geometryWgs84Json |-> toJSON(EmptyGeometry),
                   distanceText      |-> distanceText(None),
                   timeText          |-> timeText(None)])
    ELSE Returned(RouteResultOf(Get(response.routeResults)[1].route))

\* calculateRoute from the resolution of route.solve to its end
Normalize(response) ==
    IF NoRouteResults(response) THEN Threw(NoRouteMessage)
    ELSE Returned(RouteResultOf(Get(response.routeResults)[1].route))

\* ------------------------------------------------------------------- state
\* calculateRoute calls in flight at once: a call whose caller has taken its
\* outcome leaves its slot to the next call
CallIds == 1..MaxCalls

VARIABLES
    apiKey,                 \* import.meta.env.VITE_ARCGIS_API_KEY ("" when not configured)
    hasFetchDescription,    \* typeof routeModule.fetchServiceDescription === 'function'
    esriConfigApiKey,       \* esriConfig.apiKey ("" until calculateRoute sets it)
    supportedTravelModes,   \* the module-level catalog cache
    pc,                     \* per call: where calculateRoute stands
    plan,                   \* per call: the plan argument
    incidents,              \* per call: the incidents argument
    spatialRef,             \* per call: the optional spatialReference argument
    modes,                  \* per call: what ensureTravelModes returned
    params,                 \* per call: the RouteParameters submitted, if any
    result,                 \* per call: what route.solve resolved with, if it did
    outcome,                \* per call: the RouteResult returned or the error thrown
    fetches,                \* history, per call: catalog fetches the call issued
    submits,                \* history, per call: route submissions the call issued
    lastFetched,            \* history: the catalog of the fetch that resolved last, if any
    raced,                  \* history: two catalog fetches have been in flight at once
    rejected                \* history, per call: the failure the provider client rejected with

callVars == << pc, plan, incidents, spatialRef, modes, params, result, outcome >>
envVars == << apiKey, hasFetchDescription >>
historyVars == << fetches, submits, lastFetched, raced, rejected >>

\* The App component, the MapComponent it renders and the browser's
\* localStorage.  A handler that awaits is cut at its awaits like
\* calculateRoute is.
VARIABLES
    localStorage,           \* the 'token' and 'user' items, each present or not
    isAuthenticated,        \* App state
    user,                   \* App state
    loading,                \* App state: checkAuth has not finished
    showEventModal,         \* App state
    clickedCoords,          \* App state
    showRouteModal,         \* App state
    pendingSelection,       \* App state: 'start', 'end' or null
    routeStart,             \* App state
    routeEnd,               \* App state
    appIncidents,           \* App state `incidents`
    activeRoute,            \* App state
    routeMode,              \* App state
    routeAvoidTypes,        \* App state
    routeOptions,           \* App state
    routeEvaluation,        \* App state
    routeInfo,              \* App state
    routeLoading,           \* App state
    routeError,             \* App state
    optionsInFlight,        \* routesService.getOptions requests not yet answered
    logoutPc,               \* where handleLogout stands
    planPc,                 \* where handlePlanRoute stands
    planArgs,               \* handlePlanRoute: its argument { mode, avoidTypes }
    planResult,             \* handlePlanRoute: its local `result`
    sessions,               \* times MapComponent has been mounted
    mapPc,                  \* MapComponent: where the view.when callback stands
    forceAtMount,           \* MapComponent: forcePointSelection of the mount render
    mapMarkers,             \* MapComponent: graphics of the 'Markere Incidente' layer
    click,                  \* the map click whose view.hitTest is pending, if any
    staleLoads,             \* getMapData requests of unmounted MapComponents still pending
    routedAvoid,            \* history: the avoidTypes passed to calculateRoute for activeRoute
    lastLog,                \* history: how the last routesService.logRoute call stands
    lastClick,              \* history: what the click handler did with the last click
    mapRequest,             \* history: how the map-data request of the mounted map ended
    lastLogout              \* history: how the last authService.logout request ended

authVars == << localStorage, isAuthenticated, user, loading, logoutPc, sessions,
              lastLogout >>
modalVars == << showEventModal, clickedCoords, showRouteModal, pendingSelection,
                routeStart, routeEnd >>
routeVars == << activeRoute, routeMode, routeAvoidTypes, routeOptions, routeEvaluation,
                routeInfo, routeLoading, routeError, optionsInFlight, planPc, planArgs,
                planResult, routedAvoid, lastLog >>
mapVars == << appIncidents, mapPc, forceAtMount, mapMarkers, click, staleLoads,
              lastClick, mapRequest >>
appVars == << authVars, modalVars, routeVars, mapVars >>

engineVars == << envVars, esriConfigApiKey, supportedTravelModes, callVars, historyVars >>

vars == << engineVars, appVars >>

\* the state right after the module is loaded, for either configuration
InitEngine ==
    /\ apiKey \in {"", "AAPK-key"}
    /\ hasFetchDescription \in BOOLEAN
    /\ esriConfigApiKey = ""
    /\ supportedTravelModes = << >>
    /\ pc = [c \in CallIds |-> "idle"]
    /\ plan = [c \in CallIds |-> None]
    /\ incidents = [c \in CallIds |-> << >>]
    /\ spatialRef = [c \in CallIds |-> None]
    /\ modes = [c \in CallIds |-> << >>]
    /\ params = [c \in CallIds |-> None]
    /\ result = [c \in CallIds |-> None]
    /\ outcome = [c \in CallIds |-> NoOutcome]
    /\ fetches = [c \in CallIds |-> 0]
    /\ submits = [c \in CallIds |-> 0]
    /\ lastFetched = None
    /\ raced = FALSE
    /\ rejected = [c \in CallIds |-> None]

\* ----------------------------------------------------------------- actions
MissingApiKey_Never(key) == FALSE

\* if (!apiKey)
MissingApiKey(key) == key = ""

\* what the synchronous part of ensureTravelModes does: answer from the
\* cache, or start a fetch, or (no fetchServiceDescription) answer with the
\* cache as it is
EnsureStep ==
    IF Len(supportedTravelModes) > 0 THEN "cached"
    ELSE IF hasFetchDescription THEN "fetch"
    ELSE "cached"

\* calculateRoute(p, inc, sr) up to its first await: the credential check and
\* the synchronous part of ensureTravelModes
CalculateRoute(c, p, inc, sr) ==
    /\ pc[c] = "idle"
    /\ plan' = [plan EXCEPT ![c] = Some(p)]
    /\ incidents' = [incidents EXCEPT ![c] = inc]
    /\ spatialRef' = [spatialRef EXCEPT ![c] = sr]
    /\ IF MissingApiKey(apiKey)
       THEN /\ pc' = [pc EXCEPT ![c] = "threw"]
            /\ outcome' = [outcome EXCEPT ![c] = Threw(MissingKeyMessage)]
            /\ UNCHANGED << esriConfigApiKey, modes, fetches, raced >>
       ELSE /\ esriConfigApiKey' = apiKey
            /\ IF EnsureStep = "fetch"
               THEN /\ pc' = [pc EXCEPT ![c] = "fetching"]
                    /\ fetches' = [fetches EXCEPT ![c] = @ + 1]
                    /\ raced' = (raced \/ \E d \in CallIds : pc[d] = "fetching")
                    /\ UNCHANGED << modes, outcome >>
               ELSE /\ pc' = [pc EXCEPT ![c] = "awaitModes"]
                    /\ modes' = [modes EXCEPT ![c] = supportedTravelModes]
                    /\ UNCHANGED << outcome, fetches, raced >>
    /\ UNCHANGED << envVars, supportedTravelModes, params, result, submits, lastFetched,
                    rejected >>

\* the catalog handed on as it was before the fetch came back
ModesAfterFetch_Stale(cache) == << >>

\* return supportedTravelModes, at the end of ensureTravelModes
ModesAfterFetch(cache) == cache

\* a provider failure wrapped in an error of the engine's own
Propagate_Wrapped(failure) == Threw("Routing failed")

\* a rejected await that nothing catches: the call ends with that failure
Propagate(failure) == Threw(failure)

\* info.supportedTravelModes || []
CatalogOf(info) ==
    IF IsSome(info.supportedTravelModes) THEN Get(info.supportedTravelModes) ELSE << >>

\* supportedTravelModes = info.supportedTravelModes || []
StoreCatalog(cache, info) == CatalogOf(info)

\* fetchServiceDescription resolves with info: ensureTravelModes stores the
\* catalog in the cache and returns the cache
FetchResolved(c, info) ==
    /\ pc[c] = "fetching"
    /\ supportedTravelModes' = StoreCatalog(supportedTravelModes, info)
    /\ modes' = [modes EXCEPT ![c] = ModesAfterFetch(supportedTravelModes')]
    /\ pc' = [pc EXCEPT ![c] = "awaitModes"]
    /\ lastFetched' = Some(CatalogOf(info))
    /\ UNCHANGED << envVars, esriConfigApiKey, plan, incidents, spatialRef, params,
                    result, outcome, fetches, submits, raced, rejected >>

\* a failed fetch leaving a catalog of one empty entry in the cache
CacheAfterRejection_Poisoned(cache) ==
    << [id |-> 0, name |-> "", travelModeName |-> Undefined] >>

\* the assignment to supportedTravelModes is not reached when the await
\* throws: the cache stays as it was
CacheAfterRejection(cache) == cache

\* fetchServiceDescription rejects: neither ensureTravelModes nor
\* calculateRoute catches, the call ends with that failure
FetchRejected(c, failure) ==
    /\ pc[c] = "fetching"
    /\ pc' = [pc EXCEPT ![c] = "threw"]
    /\ outcome' = [outcome EXCEPT ![c] = Propagate(failure)]
    /\ rejected' = [rejected EXCEPT ![c] = Some(failure)]
    /\ supportedTravelModes' = CacheAfterRejection(supportedTravelModes)
    /\ UNCHANGED << envVars, esriConfigApiKey, plan, incidents,
                    spatialRef, modes, params, result, fetches, submits, lastFetched,
                    raced >>

\* a list kept at module level that every call's incidents are pushed onto:
\* a call reads its own incidents and those of the calls not yet collected
SnapshotOf_Shared(c) ==
    LET others[n \in 0..MaxCalls] ==
            IF n = 0 THEN << >>
            ELSE others[n - 1] \o (IF n = c THEN << >> ELSE incidents[n])
    IN  incidents[c] \o others[MaxCalls]

\* the incidents call c reads: its own `incidents` parameter
SnapshotOf(c) == incidents[c]

\* calculateRoute from the resumption after `await ensureTravelModes()` to
\* `await route.solve(ROUTE_URL, params)`
Submit(c) ==
    /\ pc[c] = "awaitModes"
    /\ params' = [params EXCEPT ![c] =
                    Some(RouteParameters(Get(plan[c]), SnapshotOf(c), spatialRef[c],
                                         modes[c]))]
    /\ pc' = [pc EXCEPT ![c] = "solving"]
    /\ submits' = [submits EXCEPT ![c] = @ + 1]
    /\ UNCHANGED << envVars, esriConfigApiKey, supportedTravelModes, plan, incidents,
                    spatialRef, modes, result, outcome, fetches, lastFetched, raced,
                    rejected >>

\* route.solve resolves with response
SolveResolved(c, response) ==
    /\ pc[c] = "solving"
    /\ result' = [result EXCEPT ![c] = Some(response)]
    /\ outcome' = [outcome EXCEPT ![c] = Normalize(response)]
    /\ pc' = [pc EXCEPT ![c] =
                IF IsSome(Normalize(response).result) THEN "returned" ELSE "threw"]
    /\ UNCHANGED << envVars, esriConfigApiKey, supportedTravelModes, plan, incidents,
                    spatialRef, modes, params, historyVars >>

\* route.solve rejects: calculateRoute does not catch
SolveRejected(c, failure) ==
    /\ pc[c] = "solving"
    /\ outcome' = [outcome EXCEPT ![c] = Propagate(failure)]
    /\ rejected' = [rejected EXCEPT ![c] = Some(failure)]
    /\ pc' = [pc EXCEPT ![c] = "threw"]
    /\ UNCHANGED << envVars, esriConfigApiKey, supportedTravelModes, plan, incidents,
                    spatialRef, modes, params, result, fetches, submits, lastFetched,
                    raced >>

\* the caller has taken the outcome of call c: its locals are gone, the
\* module-level state stays
Settle(c) ==
    /\ pc[c] \in {"returned", "threw"}
    /\ pc' = [pc EXCEPT ![c] = "idle"]
    /\ plan' = [plan EXCEPT ![c] = None]
    /\ incidents' = [incidents EXCEPT ![c] = << >>]
    /\ spatialRef' = [spatialRef EXCEPT ![c] = None]
    /\ modes' = [modes EXCEPT ![c] = << >>]
    /\ params' = [params EXCEPT ![c] = None]
    /\ result' = [result EXCEPT ![c] = None]
    /\ outcome' = [outcome EXCEPT ![c] = NoOutcome]
    /\ fetches' = [fetches EXCEPT ![c] = 0]
    /\ submits' = [submits EXCEPT ![c] = 0]
    /\ rejected' = [rejected EXCEPT ![c] = None]
    /\ UNCHANGED << envVars, esriConfigApiKey, supportedTravelModes, lastFetched, raced >>

\* ------------------------------------------------------------------ inputs
Mode(id, name, travelModeName) ==
    [id |-> id, name |-> name, travelModeName |-> travelModeName]

\* travel modes a provider catalog may hold: plain ones, one that shares its
\* name with another, and two known to the profiles by travelModeName only
DrivingTime == Mode(1, "Driving Time", Undefined)
DrivingDistance == Mode(2, "Driving Distance", Undefined)
WalkingTime == Mode(3, "Walking Time", Undefined)
TruckingTime == Mode(4, "Trucking Time", Undefined)
RuralDriving == Mode(5, "Rural Driving", "Driving Distance")
DrivingTimeAgain == Mode(6, "Driving Time", Undefined)
CyclingTime == Mode(7, "Cycling Time", Undefined)
CustomDriving == Mode(8, "Custom", "Driving Time")

ModePool ==
    { DrivingTime, DrivingDistance, WalkingTime, TruckingTime, RuralDriving,
      DrivingTimeAgain, CyclingTime, CustomDriving }

\* a service description with the catalog, and one without the field
Info(catalog) == [supportedTravelModes |-> Some(catalog)]
InfoWithoutModes == [supportedTravelModes |-> None]

Coordinate(lat, lon) == [latitude |-> lat, longitude |-> lon]

PlanStart == Coordinate(4443000, 2610000)
PlanEnd == Coordinate(4445000, 2612000)

Plan(mode, avoidTypes) ==
    [start |-> PlanStart, end |-> PlanEnd, mode |-> mode, avoidTypes |-> avoidTypes]

Incident(id, type, severity, lat, lng) ==
    [id |-> id, type |-> type, severity |-> severity, lat |-> lat, lng |-> lng]

IncidentTypes == {"accident", "police", "hazard"}

Accident5 == Incident(1, "accident", 5, 4444000, 2611000)
Police2 == Incident(2, "police", 2, 4446000, 2613000)
Accident1 == Incident(3, "accident", 1, -3390000, 15120000)
Hazard3 == Incident(4, "hazard", 3, 6017000, 2494000)

IncidentPool == { Accident5, Police2, Accident1, Hazard3 }

\* incident snapshots: every incident of a snapshot has its own id
Snapshots(n) ==
    { inc \in SeqsUpTo(IncidentPool, n) :
        \A i, j \in 1..Len(inc) : i # j => inc[i].id # inc[j].id }

Geometry(wkid, reprojects) ==
    [paths |-> "paths", wkid |-> wkid, reprojects |-> reprojects, projected |-> FALSE]

GeometryPool ==
    { Geometry(Some(4326), FALSE), Geometry(Some(4326), TRUE), Geometry(Some(102100), TRUE),
      Geometry(Some(102100), FALSE), Geometry(None, TRUE) }

Attributes(km, miles, travelTime, time) ==
    [Total_Kilometers |-> km, Total_Miles |-> miles,
     Total_TravelTime |-> travelTime, Total_Time |-> time]

RouteEntry(attributes, geometry) ==
    [route |-> [geometry |-> geometry, attributes |-> attributes]]

Response(routeResults) == [routeResults |-> routeResults]

PlainRoute ==
    RouteEntry(Attributes(NumberAttr(1250), UndefinedAttr, NumberAttr(1849), UndefinedAttr),
               Geometry(Some(4326), FALSE))

RoutePool ==
    { RouteEntry(Attributes(km, mi, tt, t), g) :
        km \in {UndefinedAttr, StringAttr, NumberAttr(1250)},
        mi \in {UndefinedAttr, NumberAttr(1000)},
        tt \in {UndefinedAttr, StringAttr, NumberAttr(1849)},
        t  \in {UndefinedAttr, NumberAttr(2050)},
        g  \in GeometryPool }

\* a first route followed by k more
RECURSIVE Padded(_, _)
Padded(first, k) == IF k = 0 THEN << first >> ELSE Append(Padded(first, k - 1), PlainRoute)

ProviderFailures == {"Network Error", "Unable to complete operation."}

\* ------------------------------------------------------------- application
\* App.tsx, MapComponent.tsx and the services they call.  A component's
\* effects run right after the render that follows a handler's state
\* updates, before the next event, so they belong to the handler's step.

MaxSessions == 2

NoSession == [token |-> None, user |-> None]

\* authService.saveAuth
saveAuth(token, userData) == [token |-> Some(token), user |-> Some(userData)]

\* authService.clearAuth
clearAuth(storage) == [storage EXCEPT !.token = None, !.user = None]

StoredSession == saveAuth("jwt", "ana")

\* a logout whose cleanup runs only when the request succeeded
AfterLogout_OnlyOnSuccess(requestOk, storage, authenticated, userData) ==
    IF requestOk
    THEN [localStorage |-> clearAuth(storage), isAuthenticated |-> FALSE, user |-> None]
    ELSE [localStorage |-> storage, isAuthenticated |-> authenticated, user |-> userData]

\* handleLogout after its await: the catch only logs and the finally block
\* runs on both paths
AfterLogout(requestOk, storage, authenticated, userData) ==
    [localStorage |-> clearAuth(storage), isAuthenticated |-> FALSE, user |-> None]

\* the body of a map-data response
MapData(markers) == Some([markers |-> markers, heatmap |-> Some(<< >>)])

MapResponse(failed, data) == [failed |-> failed, data |-> data]

\* a getMapData that answers a failed request with undefined
getMapData_Undefined(response) ==
    IF response.failed THEN None ELSE response.data

\* eventsService.getMapData: what its promise resolves with
getMapData(response) ==
    IF response.failed THEN Some([markers |-> Some(<< >>), heatmap |-> Some(<< >>)])
    ELSE response.data

\* view.when's test `!data || !data.markers`
NoMapData(data) == ~IsSome(data) \/ ~IsSome(Get(data).markers)

RouteOptions(available, defaults) ==
    [available_event_types |-> available, default_avoid_types |-> defaults]

\* the effect on [routeOptions, routeAvoidTypes.length]
DefaultAvoidEffect(options, avoidTypes) ==
    IF /\ IsSome(options)
       /\ Len(avoidTypes) = 0
       /\ Len(Get(options).default_avoid_types) > 0
    THEN Get(options).default_avoid_types
    ELSE avoidTypes

Elements(seq) == { seq[k] : k \in 1..Len(seq) }

\* availableIncidentTypes, as the set of its entries
availableIncidentTypes(markers, options) ==
    { markers[k].type : k \in 1..Len(markers) }
        \cup (IF IsSome(options) THEN Elements(Get(options).available_event_types) ELSE {})

\* RoutePlannerModal: the selections toggleAvoid can reach from
\* initialAvoidTypes with the checkboxes of availableTypes
Selectable(selectedAvoid, initialAvoidTypes, availableTypes) ==
    /\ Elements(selectedAvoid) \subseteq (availableTypes \cup Elements(initialAvoidTypes))
    /\ (Elements(initialAvoidTypes) \ availableTypes) \subseteq Elements(selectedAvoid)

SelectPointsMessage == "Select start and destination on the map."

CalculateFailedMessage == "Failed to calculate route"

\* a failure shown with the generic text whatever its message
routeErrorOf_Generic(message) == CalculateFailedMessage

\* err?.message || 'Failed to calculate route'
routeErrorOf(message) == IF message = "" THEN CalculateFailedMessage ELSE message

\* the response of the backend to logRoute: the evaluation of the polyline
\* it was sent
RouteLogResponse(polyline, score) == [route |-> polyline, score |-> score]

\* the state right after App is mounted and its effects have run: checkAuth
\* is waiting for verifyToken when a token and a user are stored, and is
\* over otherwise
InitApp ==
    /\ localStorage \in {NoSession, StoredSession}
    /\ isAuthenticated = FALSE
    /\ user = None
    /\ loading = (IsSome(localStorage.token) /\ IsSome(localStorage.user))
    /\ showEventModal = FALSE
    /\ clickedCoords = None
    /\ showRouteModal = FALSE
    /\ pendingSelection = None
    /\ routeStart = None
    /\ routeEnd = None
    /\ appIncidents = << >>
    /\ activeRoute = None
    /\ routeMode = "car"
    /\ routeAvoidTypes = << >>
    /\ routeOptions = None
    /\ routeEvaluation = None
    /\ routeInfo = None
    /\ routeLoading = FALSE
    /\ routeError = ""
    /\ optionsInFlight = 0
    /\ logoutPc = "idle"
    /\ planPc = "idle"
    /\ planArgs = None
    /\ planResult = None
    /\ sessions = 0
    /\ mapPc = "unmounted"
    /\ forceAtMount = FALSE
    /\ mapMarkers = << >>
    /\ click = None
    /\ staleLoads = 0
    /\ routedAvoid = None
    /\ lastLog = "none"
    /\ lastClick = "none"
    /\ mapRequest = "none"
    /\ lastLogout = "none"

\* App mounted in a browser that holds no session
InitIdleApp == InitApp /\ localStorage = NoSession

\* the engine loaded, in either configuration, and the application idle
Init == InitEngine /\ InitIdleApp

\* App renders the navbar, the map and the modals
MainShown == ~loading /\ isAuthenticated

\* a modal's backdrop covers the navbar, the map and the cards
Backdrop == showEventModal \/ showRouteModal

\* isAuthenticated has become true: MapComponent is mounted with the props
\* of this render and loadRouteOptions issues its request
Mount ==
    /\ sessions' = sessions + 1
    /\ mapPc' = "loading"
    /\ forceAtMount' = IsSome(pendingSelection)
    /\ mapMarkers' = << >>
    /\ mapRequest' = "none"
    /\ optionsInFlight' = optionsInFlight + 1

\* checkAuth after verifyToken, which resolves true or false and never rejects
VerifyResolved(isValid) ==
    /\ loading
    /\ loading' = FALSE
    /\ IF isValid
       THEN /\ isAuthenticated' = TRUE
            /\ user' = localStorage.user
            /\ Mount
            /\ UNCHANGED localStorage
       ELSE /\ localStorage' = clearAuth(localStorage)
            /\ UNCHANGED << isAuthenticated, user, sessions, mapPc, forceAtMount,
                            mapMarkers, mapRequest, optionsInFlight >>
    /\ UNCHANGED << engineVars, logoutPc, lastLogout, modalVars, activeRoute, routeMode, routeAvoidTypes,
                    routeOptions, routeEvaluation, routeInfo, routeLoading, routeError,
                    planPc, planArgs, planResult, routedAvoid, lastLog, appIncidents,
                    click, staleLoads, lastClick >>

\* AuthForm after a successful login or registration: saveAuth, then
\* onAuthSuccess = handleAuthSuccess
AuthSuccess(token, userData) ==
    /\ ~loading
    /\ ~isAuthenticated
    /\ sessions < MaxSessions
    /\ localStorage' = saveAuth(token, userData)
    /\ isAuthenticated' = TRUE
    /\ user' = Some(userData)
    /\ Mount
    /\ UNCHANGED << engineVars, loading, logoutPc, lastLogout, modalVars, activeRoute, routeMode,
                    routeAvoidTypes, routeOptions, routeEvaluation, routeInfo, routeLoading,
                    routeError, planPc, planArgs, planResult, routedAvoid, lastLog,
                    appIncidents, click, staleLoads, lastClick >>

\* handleLogout up to its await
LogoutStart ==
    /\ MainShown
    /\ ~Backdrop
    /\ logoutPc = "idle"
    /\ logoutPc' = "requesting"
    /\ UNCHANGED << engineVars, localStorage, isAuthenticated, user, loading, sessions,
                    lastLogout, modalVars, routeVars, mapVars >>

\* handleLogout from the end of authService.logout.  A MapComponent that is
\* no longer rendered is unmounted and its view destroyed: a view.when
\* callback that has not started may never run, one that awaits getMapData
\* goes on, and a pending view.hitTest may or may not resolve.
LogoutEnd(requestOk) ==
    /\ logoutPc = "requesting"
    /\ logoutPc' = "idle"
    /\ lastLogout' = IF requestOk THEN "resolved" ELSE "rejected"
    /\ LET after == AfterLogout(requestOk, localStorage, isAuthenticated, user)
       IN  /\ localStorage' = after.localStorage
           /\ isAuthenticated' = after.isAuthenticated
           /\ user' = after.user
           /\ IF isAuthenticated /\ ~after.isAuthenticated
              THEN /\ mapPc' = "unmounted"
                   /\ forceAtMount' = FALSE
                   /\ mapMarkers' = << >>
                   /\ mapRequest' = "none"
                   /\ staleLoads' \in (IF mapPc = "loading"
                                       THEN {staleLoads, staleLoads + 1}
                                       ELSE {staleLoads})
                   /\ click' \in {click, None}
              ELSE UNCHANGED << mapPc, forceAtMount, mapMarkers, mapRequest, staleLoads,
                                click >>
    /\ UNCHANGED << engineVars, loading, sessions, modalVars, routeVars, appIncidents,
                    lastClick >>

LogoutResolved == LogoutEnd(TRUE)

LogoutRejected == LogoutEnd(FALSE)

\* loadRouteOptions after getOptions resolved, and the default-avoid effect
\* of the render that follows
OptionsResolved(options) ==
    /\ optionsInFlight > 0
    /\ optionsInFlight' = optionsInFlight - 1
    /\ routeOptions' = Some(options)
    /\ routeAvoidTypes' = DefaultAvoidEffect(Some(options), routeAvoidTypes)
    /\ UNCHANGED << engineVars, authVars, modalVars, activeRoute, routeMode,
                    routeEvaluation, routeInfo, routeLoading, routeError, planPc, planArgs,
                    planResult, routedAvoid, lastLog, mapVars >>

\* loadRouteOptions after getOptions rejected: the error is logged
OptionsRejected ==
    /\ optionsInFlight > 0
    /\ optionsInFlight' = optionsInFlight - 1
    /\ UNCHANGED << engineVars, authVars, modalVars, activeRoute, routeMode, routeAvoidTypes,
                    routeOptions, routeEvaluation, routeInfo, routeLoading, routeError,
                    planPc, planArgs, planResult, routedAvoid, lastLog, mapVars >>

\* the view.when callback of the mounted MapComponent, from the end of
\* getMapData: onIncidentsLoaded = setIncidents, the layers, and the
\* registration of the click handler
MapLoadResolved(response) ==
    /\ mapPc = "loading"
    /\ mapRequest' = IF response.failed THEN "failed" ELSE "ok"
    /\ LET data == getMapData(response)
       IN  IF NoMapData(data)
           THEN /\ mapPc' = "nodata"
                /\ UNCHANGED << appIncidents, mapMarkers >>
           ELSE /\ mapPc' = "ready"
                /\ appIncidents' = Get(Get(data).markers)
                /\ mapMarkers' = Get(Get(data).markers)
    /\ UNCHANGED << engineVars, authVars, modalVars, routeVars, forceAtMount, click,
                    staleLoads, lastClick >>

\* the same callback of a MapComponent unmounted meanwhile: its handler ref
\* still holds setIncidents, its view is destroyed
StaleLoadResolved(response) ==
    /\ staleLoads > 0
    /\ staleLoads' = staleLoads - 1
    /\ LET data == getMapData(response)
       IN  IF NoMapData(data)
           THEN UNCHANGED appIncidents
           ELSE appIncidents' = Get(Get(data).markers)
    /\ UNCHANGED << engineVars, authVars, modalVars, routeVars, mapPc, forceAtMount,
                    mapMarkers, click, lastClick, mapRequest >>

\* the App state handleMapClick reads or writes
ClickState ==
    [pendingSelection |-> pendingSelection, routeStart |-> routeStart,
     routeEnd |-> routeEnd, routeError |-> routeError, showRouteModal |-> showRouteModal,
     clickedCoords |-> clickedCoords, showEventModal |-> showEventModal]

\* a pick that does not return and goes on to open the incident-report modal
handleMapClick_FallsThrough(coords, st) ==
    IF IsSome(st.pendingSelection)
    THEN [st EXCEPT !.routeStart = IF Get(st.pendingSelection) = "start" THEN Some(coords) ELSE @,
                    !.routeEnd = IF Get(st.pendingSelection) = "start" THEN @ ELSE Some(coords),
                    !.pendingSelection = None,
                    !.routeError = "",
                    !.showRouteModal = TRUE,
                    !.clickedCoords = Some(coords),
                    !.showEventModal = TRUE]
    ELSE [st EXCEPT !.clickedCoords = Some(coords), !.showEventModal = TRUE]

\* handleMapClick of the current render (clickHandlerRef.current is
\* assigned by the effect of the render in which pendingSelection changed)
handleMapClick(coords, st) ==
    IF IsSome(st.pendingSelection)
    THEN [st EXCEPT !.routeStart = IF Get(st.pendingSelection) = "start" THEN Some(coords) ELSE @,
                    !.routeEnd = IF Get(st.pendingSelection) = "start" THEN @ ELSE Some(coords),
                    !.pendingSelection = None,
                    !.routeError = "",
                    !.showRouteModal = TRUE]
    ELSE [st EXCEPT !.clickedCoords = Some(coords), !.showEventModal = TRUE]

\* the user clicks the map: the click handler registered by view.when runs
\* up to its await of view.hitTest.  The handler is the closure of the
\* mount render, so the forcePointSelection it reads is the one of that
\* render.  A marker can be hit only where the layer has one.
MapClick(coords, hitMarker) ==
    /\ MainShown
    /\ ~Backdrop
    /\ mapPc = "ready"
    /\ click = None
    /\ hitMarker => Len(mapMarkers) > 0
    /\ click' = Some([coords |-> coords, hitMarker |-> hitMarker,
                      forcePointSelection |-> forceAtMount])
    /\ UNCHANGED << engineVars, authVars, modalVars, routeVars, appIncidents, mapPc,
                    forceAtMount, mapMarkers, staleLoads, lastClick, mapRequest >>

\* the click handler from the end of view.hitTest
HitTestResolved ==
    /\ IsSome(click)
    /\ click' = None
    /\ LET event == Get(click)
       IN  IF event.hitMarker /\ ~event.forcePointSelection
           THEN /\ lastClick' = "blocked"
                /\ UNCHANGED << modalVars, routeError >>
           ELSE LET after == handleMapClick(event.coords, ClickState)
                IN  /\ lastClick' = "delivered"
                    /\ pendingSelection' = after.pendingSelection
                    /\ routeStart' = after.routeStart
                    /\ routeEnd' = after.routeEnd
                    /\ routeError' = after.routeError
                    /\ showRouteModal' = after.showRouteModal
                    /\ clickedCoords' = after.clickedCoords
                    /\ showEventModal' = after.showEventModal
    /\ UNCHANGED << engineVars, authVars, activeRoute, routeMode, routeAvoidTypes,
                    routeOptions, routeEvaluation, routeInfo, routeLoading, optionsInFlight,
                    planPc, planArgs, planResult, routedAvoid, lastLog, appIncidents, mapPc,
                    forceAtMount, mapMarkers, staleLoads, mapRequest >>

\* the New Route button
NewRoute ==
    /\ MainShown
    /\ ~Backdrop
    /\ showRouteModal' = TRUE
    /\ UNCHANGED << engineVars, authVars, showEventModal, clickedCoords, pendingSelection,
                    routeStart, routeEnd, routeVars, mapVars >>

\* RoutePlannerModal onClose: the header's close button and the backdrop
\* (Modal onHide) at any time, the Cancel button unless loading
RouteModalClose ==
    /\ MainShown
    /\ showRouteModal
    /\ showRouteModal' = FALSE
    /\ pendingSelection' = None
    /\ UNCHANGED << engineVars, authVars, showEventModal, clickedCoords, routeStart,
                    routeEnd, routeVars, mapVars >>

\* RoutePlannerModal onPickPoint: the Pick on map buttons, disabled while loading
PickPoint(target) ==
    /\ MainShown
    /\ showRouteModal
    /\ ~routeLoading
    /\ pendingSelection' = Some(target)
    /\ showRouteModal' = FALSE
    /\ UNCHANGED << engineVars, authVars, showEventModal, clickedCoords, routeStart,
                    routeEnd, routeVars, mapVars >>

\* EventModal onClose
EventModalClose ==
    /\ MainShown
    /\ showEventModal
    /\ showEventModal' = FALSE
    /\ UNCHANGED << engineVars, authVars, clickedCoords, showRouteModal, pendingSelection,
                    routeStart, routeEnd, routeVars, mapVars >>

\* handlePlanRoute up to its await of calculateRoute.  The submit button is
\* disabled while loading or without both endpoints, so the handler's own
\* test of routeStart and routeEnd passes whenever it runs.
PlanRoute(mode, avoidTypes) ==
    /\ MainShown
    /\ showRouteModal
    /\ ~routeLoading
    /\ IsSome(routeStart) /\ IsSome(routeEnd)
    /\ Selectable(avoidTypes, routeAvoidTypes,
                  availableIncidentTypes(appIncidents, routeOptions))
    /\ routeLoading' = TRUE
    /\ routeError' = ""
    /\ routeEvaluation' = None
    /\ planPc' = "calculating"
    /\ planArgs' = Some([mode |-> mode, avoidTypes |-> avoidTypes])
    /\ planResult' = None
    /\ UNCHANGED << engineVars, authVars, modalVars, activeRoute, routeMode, routeAvoidTypes,
                    routeOptions, routeInfo, optionsInFlight, routedAvoid, lastLog, mapVars >>

\* handlePlanRoute from the resolution of calculateRoute to its await of
\* logRoute, and the default-avoid effect of the render that follows
CalculateResolved(routeResult) ==
    /\ planPc = "calculating"
    /\ planPc' = "logging"
    /\ planResult' = Some(routeResult)
    /\ activeRoute' = Some(routeResult)
    /\ routeMode' = Get(planArgs).mode
    /\ routeAvoidTypes' = DefaultAvoidEffect(routeOptions, Get(planArgs).avoidTypes)
    /\ routeInfo' = Some([distanceText |-> routeResult.distanceText,
                          timeText |-> routeResult.timeText])
    /\ routedAvoid' = Some(Get(planArgs).avoidTypes)
    /\ lastLog' = "pending"
    /\ UNCHANGED << engineVars, authVars, modalVars, routeOptions, routeEvaluation,
                    routeLoading, routeError, optionsInFlight, planArgs, mapVars >>

\* handlePlanRoute from the rejection of calculateRoute: the outer catch
\* and the finally block
CalculateRejected(message) ==
    /\ planPc = "calculating"
    /\ planPc' = "idle"
    /\ planArgs' = None
    /\ routeError' = routeErrorOf(message)
    /\ routeLoading' = FALSE
    /\ UNCHANGED << engineVars, authVars, modalVars, activeRoute, routeMode, routeAvoidTypes,
                    routeOptions, routeEvaluation, routeInfo, optionsInFlight, planResult,
                    routedAvoid, lastLog, mapVars >>

\* handlePlanRoute from the resolution of logRoute
LogResolved(score) ==
    /\ planPc = "logging"
    /\ planPc' = "idle"
    /\ planArgs' = None
    /\ lastLog' = "resolved"
    /\ routeEvaluation' = Some(RouteLogResponse(Get(planResult).geometryWgs84Json, score))
    /\ showRouteModal' = FALSE
    /\ routeLoading' = FALSE
    /\ UNCHANGED << engineVars, authVars, showEventModal, clickedCoords, pendingSelection,
                    routeStart, routeEnd, activeRoute, routeMode, routeAvoidTypes,
                    routeOptions, routeInfo, routeError, optionsInFlight, planResult,
                    routedAvoid, mapVars >>

\* a logRoute failure that reaches the outer catch
AfterLogFailure_Escapes(showModal, error) ==
    [showRouteModal |-> showModal, routeError |-> CalculateFailedMessage]

\* the inner catch logs the failure, and handlePlanRoute goes on to close
\* the modal
AfterLogFailure(showModal, error) ==
    [showRouteModal |-> FALSE, routeError |-> error]

\* handlePlanRoute from the rejection of logRoute
LogRejected ==
    /\ planPc = "logging"
    /\ planPc' = "idle"
    /\ planArgs' = None
    /\ lastLog' = "rejected"
    /\ LET after == AfterLogFailure(showRouteModal, routeError)
       IN  /\ showRouteModal' = after.showRouteModal
           /\ routeError' = after.routeError
    /\ routeLoading' = FALSE
    /\ UNCHANGED << engineVars, authVars, showEventModal, clickedCoords, pendingSelection,
                    routeStart, routeEnd, activeRoute, routeMode, routeAvoidTypes,
                    routeOptions, routeEvaluation, routeInfo, optionsInFlight, planResult,
                    routedAvoid, mapVars >>

\* clearRoute: the Close route button of the Active Route card
clearRoute ==
    /\ MainShown
    /\ ~Backdrop
    /\ IsSome(activeRoute) /\ IsSome(routeInfo)
    /\ activeRoute' = None
    /\ routeInfo' = None
    /\ routeEvaluation' = None
    /\ routedAvoid' = None
    /\ UNCHANGED << engineVars, authVars, modalVars, routeMode, routeAvoidTypes,
                    routeOptions, routeLoading, routeError, optionsInFlight, planPc,
                    planArgs, planResult, lastLog, mapVars >>

\* ---------------------------------------------------------- specifications
\* Every step of the engine, for calls `calls` with arguments and provider
\* answers drawn from the given sets.
EngineNext(calls, plans, snapshots, refs, infos, responses, failures) ==
    \E c \in calls :
        \/ /\ pc[c] = "idle"
           /\ \E p \in plans, inc \in snapshots, sr \in refs : CalculateRoute(c, p, inc, sr)
        \/ /\ pc[c] = "fetching"
           /\ \E info \in infos : FetchResolved(c, info)
        \/ /\ pc[c] = "fetching"
           /\ \E failure \in failures : FetchRejected(c, failure)
        \/ Submit(c)
        \/ /\ pc[c] = "solving"
           /\ \E response \in responses : SolveResolved(c, response)
        \/ /\ pc[c] = "solving"
           /\ \E failure \in failures : SolveRejected(c, failure)
        \/ Settle(c)

\* the engine called on its own: the application stays as it was mounted
EngineSteps(calls, plans, snapshots, refs, infos, responses, failures) ==
    /\ EngineNext(calls, plans, snapshots, refs, infos, responses, failures)
    /\ UNCHANGED appVars

\* SpecCache: several calls, overlapping or one after the other, against a
\* provider whose catalog may differ from fetch to fetch
CachePlans == { Plan("car", << >>) }

NoSnapshot == { << >> }

NoSpatialReference == { None }

CacheInfos ==
    { InfoWithoutModes, Info(<< >>), Info(<< DrivingTime >>),
      Info(<< DrivingDistance, WalkingTime >>) }

CacheResponses == { Response(Some(<< PlainRoute >>)) }

CacheFailures == { "Network Error" }

NextCache ==
    EngineSteps(CallIds, CachePlans, NoSnapshot, NoSpatialReference,
               CacheInfos, CacheResponses, CacheFailures)

SpecCache == Init /\ [][NextCache]_vars

\* SpecResolve: one call at a time, every profile against every catalog
OneCall == {1}

ResolvePlans == { Plan(m, << >>) : m \in TravelProfile }

ResolveInfos == { Info(catalog) : catalog \in SeqsUpTo(ModePool, MaxCatalog) }

NextResolve ==
    EngineSteps(OneCall, ResolvePlans, NoSnapshot, NoSpatialReference,
               ResolveInfos, CacheResponses, CacheFailures)

SpecResolve == Init /\ [][NextResolve]_vars

\* SpecBarriers: one call at a time, every avoid list against every snapshot
BarrierPlans == { Plan("car", avoid) : avoid \in SeqsUpTo(IncidentTypes, MaxAvoid) }

BarrierSnapshots == Snapshots(MaxIncidents)

BarrierSpatialReferences == { None, Some(102100) }

BarrierInfos == { Info(<< >>), Info(<< DrivingTime >>) }

NextBarriers ==
    EngineSteps(OneCall, BarrierPlans, BarrierSnapshots, BarrierSpatialReferences,
               BarrierInfos, CacheResponses, CacheFailures)

SpecBarriers == Init /\ [][NextBarriers]_vars

\* SpecNormalize: one call at a time, every provider response
NormalizePlans == { Plan("car", << "accident" >>) }

NormalizeSnapshots == { << Accident5 >> }

NormalizeInfos == { Info(<< DrivingTime >>) }

NormalizeResponses ==
    { Response(None), Response(Some(<< >>)) }
    \cup { Response(Some(Padded(r, k))) : r \in RoutePool, k \in 0..(MaxRoutes - 1) }

NextNormalize ==
    EngineSteps(OneCall, NormalizePlans, NormalizeSnapshots, NoSpatialReference,
               NormalizeInfos, NormalizeResponses, ProviderFailures)

SpecNormalize == Init /\ [][NextNormalize]_vars

\* SpecFailures: several calls against a provider that may reject either
\* request, with one failure or another, or answer without a route
FailureResponses == { Response(None), Response(Some(<< PlainRoute >>)) }

NextFailures ==
    EngineSteps(CallIds, CachePlans, NoSnapshot, NoSpatialReference,
               CacheInfos, FailureResponses, ProviderFailures)

SpecFailures == Init /\ [][NextFailures]_vars

\* SpecRepeat: calls repeated and overlapping, with one plan and snapshot or
\* another, against a provider stub whose catalog is always the same
RepeatPlans == { Plan("car", << "accident" >>), Plan("pedestrian", << >>) }

RepeatSnapshots == { << >>, << Accident5, Police2 >> }

RepeatInfos == { Info(<< WalkingTime, DrivingTime >>) }

LongRoute ==
    RouteEntry(Attributes(UndefinedAttr, NumberAttr(1000), UndefinedAttr, NumberAttr(2050)),
               Geometry(Some(102100), TRUE))

RepeatResponses ==
    { Response(Some(<< PlainRoute >>)), Response(Some(<< LongRoute >>)),
      Response(Some(<< >>)) }

NextRepeat ==
    EngineSteps(CallIds, RepeatPlans, RepeatSnapshots, NoSpatialReference,
               RepeatInfos, RepeatResponses, CacheFailures)

SpecRepeat == Init /\ [][NextRepeat]_vars

\* SpecFrame: calls repeated and overlapping with one plan, some with
\* incidents to avoid and some with none
FramePlans == { Plan("car", << "accident" >>) }

NextFrame ==
    EngineSteps(CallIds, FramePlans, RepeatSnapshots, NoSpatialReference,
               RepeatInfos, CacheResponses, CacheFailures)

SpecFrame == Init /\ [][NextFrame]_vars

\* SpecRadius: one call at a time, an incident of every severity
Severities == 1..5

RadiusPlans == { Plan("car", << "accident" >>) }

RadiusSnapshots ==
    { << Incident(s, "accident", s, 4444000, 2611000) >> : s \in Severities }

NextRadius ==
    EngineSteps(OneCall, RadiusPlans, RadiusSnapshots, BarrierSpatialReferences,
               BarrierInfos, CacheResponses, CacheFailures)

SpecRadius == Init /\ [][NextRadius]_vars

\* SpecRing: one call at a time, incidents on the equator, next to it and
\* far from it, of the least and the greatest severity
RingLatitudes == {0, 300, 0 - 300, 4444000, 0 - 3390000}

RingSnapshots ==
    { << Incident(1, "accident", s, lat, 2611000) >> : s \in {1, 5}, lat \in RingLatitudes }

NextRing ==
    EngineSteps(OneCall, RadiusPlans, RingSnapshots, NoSpatialReference,
               BarrierInfos, CacheResponses, CacheFailures)

SpecRing == Init /\ [][NextRing]_vars

\* ------------------------------------------------ application specifications
\* the engine loaded and configured, App just mounted
InitBrowser ==
    /\ InitEngine
    /\ apiKey = "AAPK-key"
    /\ hasFetchDescription
    /\ InitApp

DetourRoute ==
    RouteEntry(Attributes(NumberAttr(2100), UndefinedAttr, NumberAttr(3020), UndefinedAttr),
               [Geometry(Some(4326), FALSE) EXCEPT !.paths = "detour"])

DirectResult == RouteResultOf(PlainRoute.route)
DetourResult == RouteResultOf(DetourRoute.route)

MapFailure == MapResponse(TRUE, None)
MapWithMarkers == MapResponse(FALSE, MapData(Some(<< Accident5 >>)))
MapWithoutMarkers == MapResponse(FALSE, MapData(None))

NoDefaults == RouteOptions(<< "accident" >>, << >>)
PoliceByDefault == RouteOptions(<< "accident", "police" >>, << "police" >>)

\* SpecMap: sessions one after the other, the map's load and its clicks,
\* picks and modals
MapResponses == { MapFailure, MapWithMarkers, MapWithoutMarkers }

NextMap ==
    \/ \E isValid \in BOOLEAN : VerifyResolved(isValid)
    \/ AuthSuccess("jwt", "ana")
    \/ LogoutStart
    \/ LogoutResolved
    \/ LogoutRejected
    \/ \E response \in MapResponses : MapLoadResolved(response)
    \/ \E response \in MapResponses : StaleLoadResolved(response)
    \/ \E coords \in {PlanStart, PlanEnd}, hitMarker \in BOOLEAN : MapClick(coords, hitMarker)
    \/ HitTestResolved
    \/ NewRoute
    \/ RouteModalClose
    \/ \E target \in {"start", "end"} : PickPoint(target)
    \/ EventModalClose

SpecMap == InitBrowser /\ [][NextMap]_vars

\* SpecPlan: one session in which routes are planned with every choice of
\* the planner, shown, and closed
PlanSelections == { << >>, << "accident" >>, << "police" >> }
PlanMessages == { NoRouteMessage, "Network Error" }

NextPlan ==
    \/ \E isValid \in BOOLEAN : VerifyResolved(isValid)
    \/ AuthSuccess("jwt", "ana")
    \/ \E options \in {NoDefaults, PoliceByDefault} : OptionsResolved(options)
    \/ OptionsRejected
    \/ \E response \in {MapWithMarkers, MapFailure} : MapLoadResolved(response)
    \/ \E coords \in {PlanStart} : MapClick(coords, FALSE)
    \/ HitTestResolved
    \/ NewRoute
    \/ RouteModalClose
    \/ \E target \in {"start", "end"} : PickPoint(target)
    \/ EventModalClose
    \/ \E mode \in {"car", "pedestrian"}, avoidTypes \in PlanSelections : PlanRoute(mode, avoidTypes)
    \/ \E routeResult \in {DirectResult, DetourResult} : CalculateResolved(routeResult)
    \/ \E message \in PlanMessages : CalculateRejected(message)
    \/ \E score \in {90, 40} : LogResolved(score)
    \/ LogRejected
    \/ clearRoute

SpecPlan == InitBrowser /\ [][NextPlan]_vars

\* ------------------------------------------------------------------ claims
\* call c issues a catalog fetch in this step
IssuesFetch(c) == pc[c] = "idle" /\ pc'[c] = "fetching"

\* C1: once a catalog fetch has resolved, whatever catalog it brought (an
\* empty one too), no later step of any calculateRoute call fetches the
\* catalog again.
C1_NeverRefetched ==
    [][IsSome(lastFetched) => ~\E c \in CallIds : IssuesFetch(c)]_vars

\* two or more fetches have overlapped, and every fetch has come back
RaceSettled ==
    /\ raced
    /\ IsSome(lastFetched)
    /\ \A c \in CallIds : pc[c] # "fetching"

\* the catalogs the provider hands out in SpecCache, each one whole
WholeCatalogs == { CatalogOf(info) : info \in CacheInfos }

\* C2: after calls that overlapped on an empty cache have all got their
\* catalog, the cache holds the catalog of the fetch that resolved last, every
\* call holds a whole catalog, and no call made from then on fetches again.
C2_RaceConverges ==
    [][RaceSettled =>
          /\ supportedTravelModes = Get(lastFetched)
          /\ \A c \in CallIds :
                pc[c] \in {"awaitModes", "solving", "returned"} => modes[c] \in WholeCatalogs
          /\ ~\E c \in CallIds : IssuesFetch(c)]_vars

\* C3: with no credential configured every call ends at once with the
\* configuration error, no catalog fetch and no route submission is ever
\* issued, no request is built, and the cache stays as it was.
C3_NoKeyNoNetwork ==
    apiKey = "" =>
        /\ supportedTravelModes = << >>
        /\ \A c \in CallIds :
              /\ pc[c] \in {"idle", "threw"}
              /\ pc[c] = "threw" => outcome[c] = Threw(MissingKeyMessage)
              /\ fetches[c] = 0
              /\ submits[c] = 0
              /\ params[c] = None

C3_Witness ==
    /\ apiKey = ""
    /\ \E c \in CallIds : pc[c] = "threw" /\ outcome[c] = Threw(MissingKeyMessage)

\* a call that has built and submitted its request
Submitted(c) == IsSome(params[c])

\* the names a profile asks for
CandidateNames(profile) ==
    CASE profile = "car"        -> {"Driving Time", "Driving Distance"}
      [] profile = "bicycle"    -> {"Cycling Time", "Bicycle Time", "Driving Distance"}
      [] profile = "pedestrian" -> {"Walking Time", "Walking Distance"}

\* C4 as stated: the resolver's answer, read off the submitted request,
\* is (a) a catalog entry whose name is a candidate name when some entry's
\* name is one, (b) the first entry when no entry's name is one and the
\* catalog is not empty, (c) nothing exactly when the catalog is empty.
C4_ByNameOnly ==
    \A c \in CallIds : Submitted(c) =>
        LET catalog == modes[c]
            names   == CandidateNames(Get(plan[c]).mode)
            chosen  == Get(params[c]).travelMode
            named   == { i \in 1..Len(catalog) : catalog[i].name \in names }
        IN  /\ named # {} =>
                /\ IsSome(chosen)
                /\ Get(chosen) \in Range(catalog)
                /\ Get(chosen).name \in names
            /\ (named = {} /\ Len(catalog) > 0) => chosen = Some(catalog[1])
            /\ (chosen = None) <=> (Len(catalog) = 0)

\* C4, amended: an entry counts as a candidate when its name or its
\* travelModeName is one of the profile's candidate names; with that, (a) the
\* answer is such an entry when the catalog has one, (b) the first entry when
\* it has none and is not empty, (c) nothing exactly when the catalog is empty.
C4_ByNameOrTravelModeName ==
    \A c \in CallIds : Submitted(c) =>
        LET catalog == modes[c]
            names   == CandidateNames(Get(plan[c]).mode)
            chosen  == Get(params[c]).travelMode
            named   == { i \in 1..Len(catalog) :
                            catalog[i].name \in names \/ catalog[i].travelModeName \in names }
        IN  /\ named # {} =>
                /\ IsSome(chosen)
                /\ \E i \in named : Get(chosen) = catalog[i]
            /\ (named = {} /\ Len(catalog) > 0) => chosen = Some(catalog[1])
            /\ (chosen = None) <=> (Len(catalog) = 0)

C4_WitnessCatalog == << TruckingTime, CustomDriving >>
C4_WitnessChoice == << CustomDriving >>

\* car against a catalog whose only candidate is an entry named "Custom"
\* with travelModeName "Driving Time", behind a non-candidate entry
C4_Witness ==
    \E c \in CallIds :
        /\ Submitted(c)
        /\ Get(plan[c]).mode = "car"
        /\ modes[c] = C4_WitnessCatalog
        /\ Get(params[c]).travelMode = C4_WitnessChoice

\* C5: the answer is decided by the profile's list, not by the catalog's
\* order: it is the first catalog entry that matches the earliest candidate
\* of the list that any entry matches.
C5_CandidatePriority ==
    \A c \in CallIds : Submitted(c) =>
        LET catalog    == modes[c]
            candidates == travelModeNames(Get(plan[c]).mode)
            chosen     == Get(params[c]).travelMode
            Hits(k)    == { i \in 1..Len(catalog) :
                              catalog[i].name = candidates[k]
                              \/ catalog[i].travelModeName = candidates[k] }
            present    == { k \in 1..Len(candidates) : Hits(k) # {} }
        IN  present # {} =>
                LET k0 == CHOOSE k \in present : \A j \in present : k <= j
                    i0 == CHOOSE i \in Hits(k0) : \A j \in Hits(k0) : i <= j
                IN  chosen = Some(catalog[i0])

C5_WitnessCatalog == << DrivingDistance, DrivingTime >>
C5_WitnessChoice == << DrivingTime >>

\* car against the catalog [Driving Distance, Driving Time] yields Driving Time
C5_Witness ==
    \E c \in CallIds :
        /\ Submitted(c)
        /\ Get(plan[c]).mode = "car"
        /\ modes[c] = C5_WitnessCatalog
        /\ Get(params[c]).travelMode = C5_WitnessChoice

\* the request call c submitted, and the barrier graphics it carries
Request(c) == Get(params[c])

PolygonFeatures(c) ==
    IF IsSome(Request(c).polygonBarriers)
    THEN Get(Request(c).polygonBarriers).features ELSE << >>

PointFeatures(c) ==
    IF IsSome(Request(c).pointBarriers)
    THEN Get(Request(c).pointBarriers).features ELSE << >>

\* the incidents of call c whose type the plan asks to avoid: by position
\* in the snapshot, and in snapshot order
AvoidedAt(c) ==
    { i \in 1..Len(incidents[c]) :
        \E k \in 1..Len(Get(plan[c]).avoidTypes) :
            Get(plan[c]).avoidTypes[k] = incidents[c][i].type }

Avoided(c) ==
    SelectSeq(incidents[c],
              LAMBDA incident : incident.type \in Range(Get(plan[c]).avoidTypes))

\* C6: the incidents turned into barriers are exactly the incidents whose
\* type is in avoidTypes: the polygon barriers name exactly their ids, the
\* point barriers lie exactly at their locations, and there are as many
\* barriers of each kind as there are such incidents.
C6_BarriersAreTheAvoided ==
    \A c \in CallIds : Submitted(c) =>
        /\ { PolygonFeatures(c)[k].attributes.Name[2] : k \in 1..Len(PolygonFeatures(c)) }
             = { incidents[c][i].id : i \in AvoidedAt(c) }
        /\ { << PointFeatures(c)[k].geometry.latitude,
                PointFeatures(c)[k].geometry.longitude >> : k \in 1..Len(PointFeatures(c)) }
             = { << incidents[c][i].lat, incidents[c][i].lng >> : i \in AvoidedAt(c) }
        /\ Len(PolygonFeatures(c)) = Cardinality(AvoidedAt(c))
        /\ Len(PointFeatures(c)) = Cardinality(AvoidedAt(c))

\* a request built from a snapshot with an incident to avoid and one to keep
C6_Witness ==
    \E c \in CallIds :
        /\ Submitted(c)
        /\ AvoidedAt(c) # {}
        /\ AvoidedAt(c) # 1..Len(incidents[c])
        /\ Len(PolygonFeatures(c)) = 1

\* C7: with an empty avoidTypes no barrier is built, whatever the snapshot,
\* and the request has neither a polygonBarriers nor a pointBarriers field.
C7_EmptyAvoidNoBarriers ==
    \A c \in CallIds : (Submitted(c) /\ Len(Get(plan[c]).avoidTypes) = 0) =>
        /\ Request(c).polygonBarriers = None
        /\ Request(c).pointBarriers = None

\* a request built with an empty avoidTypes from a non-empty snapshot
C7_Witness ==
    \E c \in CallIds :
        /\ Submitted(c)
        /\ Len(Get(plan[c]).avoidTypes) = 0
        /\ Len(incidents[c]) > 0

\* the radius in metres the claim gives for a severity
ClaimedRadius(severity) == 100 + (severity - 1) * 50

C9_BarrierSetsIffAvoided ==
    \A c \in CallIds : Submitted(c) =>
        /\ IsSome(Request(c).polygonBarriers) <=> (AvoidedAt(c) # {})
        /\ IsSome(Request(c).pointBarriers) <=> (AvoidedAt(c) # {})

\* a request that carries both feature sets
C9_Witness ==
    \E c \in CallIds :
        /\ Submitted(c)
        /\ IsSome(Request(c).polygonBarriers)
        /\ IsSome(Request(c).pointBarriers)

\* C10: a response whose route list is absent or empty makes the call fail
\* with the no-route error; a call that returns a RouteResult got a response
\* with a route, and the result's geometry is that route's.
C10_NoRouteNoResult ==
    \A c \in CallIds : IsSome(result[c]) =>
        LET routes == Get(result[c]).routeResults
        IN  IF routes = None \/ routes = Some(<< >>)
            THEN /\ pc[c] = "threw"
                 /\ outcome[c].error = Some("No route returned from routing service")
                 /\ outcome[c].result = None
            ELSE /\ pc[c] = "returned"
                 /\ IsSome(outcome[c].result)
                 /\ Get(outcome[c].result).geometry = Get(routes)[1].route.geometry

C10_WitnessResponse == << Response(Some(<< >>)) >>

\* a call that failed on a response with an empty route list
C10_Witness ==
    \E c \in CallIds :
        /\ result[c] = C10_WitnessResponse
        /\ pc[c] = "threw"

\* C11: a call whose catalog fetch or route submission was rejected has ended
\* with exactly that failure and with no result; a call never issues more
\* than one catalog fetch nor more than one route submission, and a call
\* whose fetch was rejected has submitted nothing.
C11_FailurePropagates ==
    \A c \in CallIds :
        /\ fetches[c] <= 1
        /\ submits[c] <= 1
        /\ IsSome(rejected[c]) =>
              /\ pc[c] = "threw"
              /\ outcome[c].error = rejected[c]
              /\ outcome[c].result = None
              /\ params[c] = None => submits[c] = 0

C11_WitnessFailure == << "Unable to complete operation." >>

\* a call that fetched the catalog, submitted its request and had the
\* submission rejected
C11_Witness ==
    \E c \in CallIds :
        /\ rejected[c] = C11_WitnessFailure
        /\ fetches[c] = 1
        /\ submits[c] = 1

\* C12 as stated: every submitted request asks for its output geometry in
\* WGS84 (wkid 4326), whatever arguments the call was given.
C12_AlwaysWgs84 ==
    \A c \in CallIds : Submitted(c) => Request(c).outSpatialReference = 4326

\* C12, amended: a submitted request asks for its output geometry in the
\* spatial reference the call was given as its third argument, and in WGS84
\* (wkid 4326) when the call was given none.
C12_Wgs84UnlessGiven ==
    \A c \in CallIds : Submitted(c) =>
        Request(c).outSpatialReference =
            (IF spatialRef[c] = None THEN 4326 ELSE spatialRef[c][1])

\* a request of a call that was given Web Mercator as its spatialReference
C12_Witness ==
    \E c \in CallIds :
        /\ Submitted(c)
        /\ IsSome(spatialRef[c])
        /\ Get(spatialRef[c]) = 102100
        /\ Request(c).outSpatialReference = 102100

\* C13: the step that takes a call on from its catalog submits a request,
\* whatever the catalog; the request has a travelMode exactly when the
\* resolver found a mode for the call's profile in the call's catalog, that
\* mode being an entry of the catalog; with an empty catalog the request
\* has no travelMode at all.
C13_TravelModeIffResolved ==
    [][\A c \in CallIds : (pc[c] = "awaitModes" /\ pc'[c] # "awaitModes") =>
          LET resolved == resolveTravelMode(Get(plan[c]).mode, modes[c])
              field    == Get(params'[c]).travelMode
          IN  /\ pc'[c] = "solving"
              /\ IsSome(params'[c])
              /\ submits'[c] = submits[c] + 1
              /\ IsSome(field) <=> IsSome(resolved)
              /\ IsSome(field) => (field = resolved /\ Get(field) \in Range(modes[c]))
              /\ Len(modes[c]) = 0 => field = None]_vars

\* a request submitted after the provider answered with an empty catalog
C13_Witness ==
    \E c \in CallIds :
        /\ pc[c] = "solving"
        /\ fetches[c] = 1
        /\ Len(modes[c]) = 0
        /\ Request(c).travelMode = None

\* the first route of the response call c got, and the RouteResult it returned
FirstRoute(c) == Get(Get(result[c]).routeResults)[1].route

ReturnedResult(c) == Get(outcome[c].result)

\* C14: the distance label of a returned result is the route's
\* Total_Kilometers with two decimals and " km" when that is a number,
\* whatever Total_Miles is; else Total_Miles times 1.60934, rounded to two
\* decimals, and " km" when that is a number; else "distance unavailable".
\* Total_Miles = 10 alone gives 16.09 km. (Numbers are in hundredths.)
C14_DistanceFallback ==
    \A c \in CallIds : pc[c] = "returned" =>
        LET km    == FirstRoute(c).attributes.Total_Kilometers
            miles == FirstRoute(c).attributes.Total_Miles
            label == ReturnedResult(c).distanceText
        IN  /\ km.typeof = "number" =>
                label = [fixed |-> km.number, text |-> " km"]
            /\ (km.typeof # "number" /\ miles.typeof = "number") =>
                label = [fixed |-> (miles.number * 160934 + 50000) \div 100000,
                         text  |-> " km"]
            /\ (km.typeof # "number" /\ miles.typeof # "number") =>
                label.text = "distance unavailable"
            /\ (km.typeof # "number" /\ miles.typeof = "number" /\ miles.number = 1000) =>
                label.fixed = 1609

\* a result for a route with a non-numeric Total_Kilometers and 10 miles
C14_Witness ==
    \E c \in CallIds :
        /\ pc[c] = "returned"
        /\ FirstRoute(c).attributes.Total_Kilometers.typeof = "string"
        /\ FirstRoute(c).attributes.Total_Miles.typeof = "number"
        /\ FirstRoute(c).attributes.Total_Miles.number = 1000
        /\ ReturnedResult(c).distanceText.fixed = 1609
        /\ ReturnedResult(c).distanceText.text = " km"

\* C15: the duration label of a returned result is the route's
\* Total_TravelTime rounded to the nearest whole minute and " min" when that
\* is a number, whatever Total_Time is; else Total_Time rounded likewise when
\* that is a number; else "time unavailable". (Numbers are in hundredths.)
C15_DurationFallback ==
    \A c \in CallIds : pc[c] = "returned" =>
        LET travelTime == FirstRoute(c).attributes.Total_TravelTime
            time       == FirstRoute(c).attributes.Total_Time
            label      == ReturnedResult(c).timeText
        IN  /\ travelTime.typeof = "number" =>
                label = [fixed |-> (travelTime.number + 50) \div 100, text |-> " min"]
            /\ (travelTime.typeof # "number" /\ time.typeof = "number") =>
                label = [fixed |-> (time.number + 50) \div 100, text |-> " min"]
            /\ (travelTime.typeof # "number" /\ time.typeof # "number") =>
                label.text = "time unavailable"

\* a result for a route with both times, 18.49 and 20.50 minutes: 18 min
C15_Witness ==
    \E c \in CallIds :
        /\ pc[c] = "returned"
        /\ FirstRoute(c).attributes.Total_TravelTime.typeof = "number"
        /\ FirstRoute(c).attributes.Total_TravelTime.number = 1849
        /\ FirstRoute(c).attributes.Total_Time.typeof = "number"
        /\ FirstRoute(c).attributes.Total_Time.number = 2050
        /\ ReturnedResult(c).timeText.fixed = 18
        /\ ReturnedResult(c).timeText.text = " min"

\* C16: a call whose route.solve resolved with at least one route has
\* returned a RouteResult and has not failed, whatever the route's
\* attributes and geometry; both labels of the result are non-empty.
C16_RouteAlwaysResult ==
    \A c \in CallIds :
        (IsSome(result[c]) /\ ~NoRouteResults(Get(result[c]))) =>
            /\ pc[c] = "returned"
            /\ outcome[c].error = None
            /\ IsSome(outcome[c].result)
            /\ ReturnedResult(c).distanceText.text # ""
            /\ ReturnedResult(c).timeText.text # ""

\* a result for a route with none of the four attributes a number and a
\* geometry that could not be reprojected
C16_Witness ==
    \E c \in CallIds :
        /\ pc[c] = "returned"
        /\ FirstRoute(c).attributes.Total_Kilometers.typeof # "number"
        /\ FirstRoute(c).attributes.Total_Miles.typeof # "number"
        /\ FirstRoute(c).attributes.Total_TravelTime.typeof # "number"
        /\ FirstRoute(c).attributes.Total_Time.typeof # "number"
        /\ FirstRoute(c).geometry.wkid # Some(4326)
        /\ ~FirstRoute(c).geometry.reprojects
        /\ ReturnedResult(c).distanceText.text = "distance unavailable"
        /\ ReturnedResult(c).timeText.text = "time unavailable"

\* C17: the canonical geometry of a returned result is the route's own
\* geometry, untouched, when that is in wkid 4326 (also when a reprojection
\* would have given something); otherwise the reprojected geometry, in
\* wkid 4326, when reprojection gives one; otherwise the route's own
\* geometry, and the call has returned all the same. The result's geometry
\* is always the route's own.
C17_CanonicalGeometry ==
    \A c \in CallIds : pc[c] = "returned" =>
        LET geometry == FirstRoute(c).geometry
            json     == ReturnedResult(c).geometryWgs84Json
            asIs     == [paths |-> geometry.paths, spatialReference |-> geometry.wkid,
                         projected |-> FALSE]
        IN  /\ ReturnedResult(c).geometry = geometry
            /\ geometry.wkid = Some(4326) => json = asIs
            /\ (geometry.wkid # Some(4326) /\ geometry.reprojects) =>
                  json = [paths |-> geometry.paths, spatialReference |-> Some(4326),
                          projected |-> TRUE]
            /\ (geometry.wkid # Some(4326) /\ ~geometry.reprojects) => json = asIs

\* a result whose route was in Web Mercator and could not be reprojected
C17_Witness ==
    \E c \in CallIds :
        /\ pc[c] = "returned"
        /\ FirstRoute(c).geometry.wkid = Some(102100)
        /\ ~FirstRoute(c).geometry.reprojects
        /\ ReturnedResult(c).geometryWgs84Json.spatialReference = Some(102100)
        /\ ~ReturnedResult(c).geometryWgs84Json.projected

\* C18: two calls given the same plan, the same incidents and the same
\* spatialReference have submitted the same request; if the provider also
\* answered both alike and both have returned, their distance and time
\* labels are the same. This against a stub whose catalog never changes,
\* whether a call fetched the catalog or read it from the cache.
C18_Idempotent ==
    \A c, d \in CallIds :
        (/\ Submitted(c) /\ Submitted(d)
         /\ plan[c] = plan[d]
         /\ incidents[c] = incidents[d]
         /\ spatialRef[c] = spatialRef[d]) =>
            /\ params[c] = params[d]
            /\ (pc[c] = "returned" /\ pc[d] = "returned" /\ result[c] = result[d]) =>
                  /\ ReturnedResult(c).distanceText = ReturnedResult(d).distanceText
                  /\ ReturnedResult(c).timeText = ReturnedResult(d).timeText

\* two returned calls with the same arguments and the same answer, the one
\* having fetched the catalog and the other not, both with a travel mode and
\* barriers in their request
C18_Witness ==
    \E c, d \in CallIds :
        /\ pc[c] = "returned" /\ pc[d] = "returned"
        /\ fetches[c] = 1 /\ fetches[d] = 0
        /\ plan[c] = plan[d]
        /\ Len(incidents[c]) = 2
        /\ incidents[c] = incidents[d]
        /\ result[c] = result[d]
        /\ IsSome(Request(c).travelMode)
        /\ IsSome(Request(c).polygonBarriers)
        /\ params[c] = params[d]

\* the barriers of call c are those of its own incidents and avoidTypes
BarriersOfOwnSnapshot(c) ==
    Submitted(c) =>
        /\ PolygonFeatures(c) = polygonBarriers(Avoided(c))
        /\ PointFeatures(c) = pointBarriers(Avoided(c))

\* C19: no step of a call changes the plan or the incident list the call
\* was given, and the step that builds a call's request gives it the
\* barriers of the call's own incidents and avoidTypes, whatever incidents
\* and barriers other calls, finished or in flight, have had; the request
\* then stays as built until the call's outcome is taken.
C19_SnapshotReadOnly ==
    [][\A c \in CallIds :
          /\ (pc[c] # "idle" /\ pc'[c] # "idle") =>
                (plan'[c] = plan[c] /\ incidents'[c] = incidents[c])
          /\ (pc[c] = "awaitModes" /\ pc'[c] = "solving") => BarriersOfOwnSnapshot(c)'
          /\ (pc[c] \in {"solving", "returned", "threw"} /\ pc'[c] # "idle") =>
                params'[c] = params[c]]_vars

\* a finished call whose request carried barriers, and another call with
\* the same avoidTypes and no incidents whose request carries none
C19_Witness ==
    \E c, d \in CallIds :
        /\ pc[d] = "returned"
        /\ IsSome(Request(d).polygonBarriers)
        /\ pc[c] = "solving"
        /\ fetches[c] = 0
        /\ Get(plan[c]).avoidTypes = Get(plan[d]).avoidTypes
        /\ Len(incidents[c]) = 0
        /\ Request(c).polygonBarriers = None
        /\ Request(c).pointBarriers = None

\* the radius in metres the table gives for severities 1 to 5
RadiusTable == << 100, 150, 200, 250, 300 >>

\* C20: getBarrierRadiusForSeverity gives 100, 150, 200, 250, 300 metres for
\* severities 1 to 5 and never less for a higher severity; the ring built
\* for an incident of severity s reaches north of the incident by the
\* table's radius for s (in 1e-5 degree, at 111320 m per degree).
C20_RadiusTable ==
    /\ \A s \in 1..5 : getBarrierRadiusForSeverity(s) = RadiusTable[s]
    /\ \A s, t \in 1..5 :
          s <= t => getBarrierRadiusForSeverity(s) <= getBarrierRadiusForSeverity(t)
    /\ \A c \in CallIds : Submitted(c) =>
          \A k \in 1..Len(Avoided(c)) :
              PolygonFeatures(c)[k].geometry.rings[1][9][2] =
                  Avoided(c)[k].lat + (RadiusTable[Avoided(c)[k].severity] * 100000) \div 111320

\* a severity-4 incident avoided: its ring reaches 250 m (224 units) north
C20_Witness ==
    \E c \in CallIds :
        /\ Submitted(c)
        /\ Len(Avoided(c)) = 1
        /\ Avoided(c)[1].severity = 4
        /\ PolygonFeatures(c)[1].geometry.rings[1][9][2] = Avoided(c)[1].lat + 224

\* C21: every circle of a submitted request has a single ring of exactly
\* 33 vertices whose first and last vertices are identical, wherever the
\* centre lies and whatever the radius.
C21_RingClosed ==
    \A c \in CallIds : Submitted(c) =>
        \A k \in 1..Len(PolygonFeatures(c)) :
            LET rings == PolygonFeatures(c)[k].geometry.rings
            IN  /\ Len(rings) = 1
                /\ Len(rings[1]) = 33
                /\ rings[1][1] = rings[1][33]

\* C28: a rejected catalog fetch leaves the cache as it was, so empty if it
\* was empty; the cache only ever holds a whole catalog of the provider; a
\* call that starts on an empty cache fetches the catalog, whatever
\* happened to earlier fetches, and when its fetch resolves it goes on with
\* the catalog fetched.
C28_FailedFetchLeavesCache ==
    [][\A c \in CallIds :
          /\ supportedTravelModes' \in WholeCatalogs
          /\ (pc[c] = "fetching" /\ pc'[c] = "threw") =>
                supportedTravelModes' = supportedTravelModes
          /\ (/\ pc[c] = "idle" /\ pc'[c] \notin {"idle", "threw"}
              /\ Len(supportedTravelModes) = 0 /\ hasFetchDescription) =>
                pc'[c] = "fetching"
          /\ (pc[c] = "fetching" /\ pc'[c] # "fetching" /\ pc'[c] # "threw") =>
                /\ pc'[c] = "awaitModes"
                /\ modes'[c] = Get(lastFetched')
                /\ supportedTravelModes' = modes'[c]]_vars

\* a call whose fetch was rejected, and a later call (no two fetches ever
\* overlapped) that fetched a catalog and submitted its request with a
\* travel mode
C28_Witness ==
    /\ ~raced
    /\ \E c, d \in CallIds :
          /\ IsSome(rejected[d]) /\ fetches[d] = 1 /\ params[d] = None
          /\ fetches[c] = 1
          /\ pc[c] = "solving"
          /\ Len(modes[c]) > 0
          /\ IsSome(Request(c).travelMode)

\* the step in which the click handler resumes after view.hitTest
HitTestStep == IsSome(click) /\ click' = None /\ logoutPc' = logoutPc

\* C22: while a pick is pending, a click that hits an incident marker is
\* delivered to handleMapClick, which sets the pending endpoint to the
\* click's coordinates -- also when the pick began after MapComponent was
\* mounted.
C22_MarkerClickDeliveredWhilePicking ==
    [][(HitTestStep /\ IsSome(pendingSelection) /\ Get(click).hitMarker) =>
          /\ lastClick' = "delivered"
          /\ pendingSelection' = None
          /\ IF Get(pendingSelection) = "start"
             THEN routeStart' = Some(Get(click).coords)
             ELSE routeEnd' = Some(Get(click).coords)]_vars

\* C23: getMapData resolves for every answer of the request, and with
\* {markers: [], heatmap: []} when the request failed; the load sequence of
\* the map then goes on: it reports the empty list to onIncidentsLoaded
\* (App's incidents become empty), builds an empty marker layer and
\* registers the click handler.
C23_FailedMapDataIsEmpty ==
    [][/\ \A response \in MapResponses :
             response.failed =>
                 getMapData(response) = Some([markers |-> Some(<< >>), heatmap |-> Some(<< >>)])
       /\ (mapPc = "loading" /\ mapPc' # "loading" /\ mapRequest' = "failed") =>
             /\ mapPc' = "ready"
             /\ appIncidents' = << >>
             /\ mapMarkers' = << >>]_vars

\* a second session whose map-data request failed: the map is ready for
\* clicks and App holds no incident
C23_Witness ==
    /\ sessions = 2
    /\ MainShown
    /\ mapRequest = "failed"
    /\ mapPc = "ready"
    /\ appIncidents = << >>
    /\ lastClick = "delivered"

\* C30: the step that ends handleLogout leaves no stored token and no
\* stored user, isAuthenticated false and user null, whether the logout
\* request succeeded or failed; so the client is never authenticated right
\* after a failed logout.
C30_LogoutAlwaysClears ==
    [][(logoutPc = "requesting" /\ logoutPc' = "idle") =>
          /\ localStorage' = NoSession
          /\ ~isAuthenticated'
          /\ user' = None]_vars

\* a session ended by a logout whose request failed
C30_Witness ==
    /\ lastLogout = "rejected"
    /\ logoutPc = "idle"
    /\ sessions = 1
    /\ ~isAuthenticated
    /\ localStorage = NoSession

\* C29: a click delivered to handleMapClick while a pick is pending sets
\* the pending endpoint to the click's coordinates and leaves the other
\* endpoint and clickedCoords as they were, clears pendingSelection, shows
\* the route modal and leaves the incident-report modal closed; a click
\* delivered with no pick pending records clickedCoords, opens the
\* incident-report modal and changes neither endpoint, nor the pick, nor
\* the route modal.
C29_MapClickFrame ==
    [][(HitTestStep /\ lastClick' = "delivered") =>
          LET coords == Get(click).coords
          IN  IF IsSome(pendingSelection)
              THEN /\ IF Get(pendingSelection) = "start"
                      THEN routeStart' = Some(coords) /\ routeEnd' = routeEnd
                      ELSE routeEnd' = Some(coords) /\ routeStart' = routeStart
                   /\ clickedCoords' = clickedCoords
                   /\ pendingSelection' = None
                   /\ showRouteModal'
                   /\ showEventModal' = showEventModal
                   /\ ~showEventModal'
              ELSE /\ showEventModal'
                   /\ clickedCoords' = Some(coords)
                   /\ routeStart' = routeStart
                   /\ routeEnd' = routeEnd
                   /\ pendingSelection' = pendingSelection
                   /\ showRouteModal' = showRouteModal]_vars

\* the destination has just been picked, after the start was picked
\* elsewhere and an incident was reported at a third click
C29_Witness ==
    /\ lastClick = "delivered"
    /\ routeStart = Some(PlanStart)
    /\ routeEnd = Some(PlanEnd)
    /\ clickedCoords = Some(PlanStart)
    /\ pendingSelection = None
    /\ showRouteModal
    /\ ~showEventModal
    /\ click = None

\* the Active Route card is rendered
RouteShown == IsSome(activeRoute) /\ IsSome(routeInfo)

\* C24: whenever an active route is shown, routeAvoidTypes, which the card
\* lists as "Avoiding", is the avoidTypes that was passed to calculateRoute
\* for that route.
C24_ShownAvoidIsPlannedAvoid ==
    RouteShown => routeAvoidTypes = Get(routedAvoid)

\* C25: in every reachable state a routeEvaluation that is not null comes
\* with an activeRoute that is not null, and is the logRoute response for
\* the polyline of that activeRoute.
C25_EvaluationOfActiveRoute ==
    IsSome(routeEvaluation) =>
        /\ IsSome(activeRoute)
        /\ Get(routeEvaluation).route = Get(activeRoute).geometryWgs84Json

\* C26: an attempt of handlePlanRoute whose calculateRoute fails changes
\* none of activeRoute, routeInfo, routeMode and routeAvoidTypes, neither
\* when it starts nor when it ends; it issues no logRoute request; it ends
\* with routeError set to the message of the failure, the route modal as
\* it was (open, unless the user closed it meanwhile) and routeLoading
\* false.
C26_FailedCalculationKeepsRoute ==
    [][/\ (planPc = "idle" /\ planPc' = "calculating") =>
             /\ activeRoute' = activeRoute /\ routeInfo' = routeInfo
             /\ routeMode' = routeMode /\ routeAvoidTypes' = routeAvoidTypes
             /\ showRouteModal' /\ routeLoading'
       /\ (planPc = "calculating" /\ planPc' = "idle") =>
             /\ activeRoute' = activeRoute /\ routeInfo' = routeInfo
             /\ routeMode' = routeMode /\ routeAvoidTypes' = routeAvoidTypes
             /\ lastLog' = lastLog /\ lastLog' # "pending"
             /\ routeError' \in PlanMessages
             /\ showRouteModal' = showRouteModal
             /\ ~routeLoading']_vars

\* a second attempt, for other choices, has failed: the first route is
\* still shown with its own mode and avoid set, next to the open planner
\* and the error
C26_Witness ==
    /\ planPc = "idle"
    /\ routeError = "Network Error"
    /\ activeRoute = Some(DirectResult)
    /\ IsSome(routeInfo)
    /\ routeMode = "pedestrian"
    /\ routeAvoidTypes = << "accident" >>
    /\ lastLog = "resolved"
    /\ showRouteModal
    /\ ~routeLoading

\* what handlePlanRoute stores in routeInfo for a result
InfoOf(routeResult) ==
    Some([distanceText |-> routeResult.distanceText, timeText |-> routeResult.timeText])

\* C27: when calculateRoute resolves, activeRoute and routeInfo take the
\* new result; when logRoute then fails, the step that ends handlePlanRoute
\* leaves them as they are -- the new result, unless the user closed the
\* route meanwhile --, routeEvaluation is and stays null, routeError is and
\* stays empty, the route modal is closed and routeLoading is false.
C27_FailedLogKeepsRoute ==
    [][/\ (planPc = "calculating" /\ planPc' = "logging") =>
             /\ IsSome(planResult')
             /\ activeRoute' = planResult'
             /\ routeInfo' = InfoOf(Get(planResult'))
       /\ (lastLog = "pending" /\ lastLog' = "rejected") =>
             /\ activeRoute' = activeRoute /\ routeInfo' = routeInfo
             /\ IsSome(activeRoute') =>
                   activeRoute' = planResult /\ routeInfo' = InfoOf(Get(planResult))
             /\ routeEvaluation = None /\ routeEvaluation' = None
             /\ routeError = "" /\ routeError' = ""
             /\ ~showRouteModal'
             /\ ~routeLoading']_vars

\* the route just computed is shown without an evaluation after logRoute
\* failed
C27_Witness ==
    /\ lastLog = "rejected"
    /\ planPc = "idle"
    /\ activeRoute = Some(DetourResult)
    /\ activeRoute = planResult
    /\ routeInfo = InfoOf(DetourResult)
    /\ routeEvaluation = None
    /\ routeError = ""
    /\ ~showRouteModal
    /\ ~routeLoading

====
